---- MODULE Spec2Model ----
(***************************************************************************)
(* ImportMarkerFeatures (src/GCPMarkerAdditions/ImportMarkerFeatures.py):  *)
(* one run of processChunk as a state machine.  The node parameters are    *)
(* fixed at Init; the contents of the two input files are drawn when the   *)
(* code reads them.  Text is kept as text: a line is the sequence of its   *)
(* space-separated tokens, numbers pass through str()/int() tables, and a  *)
(* descriptor file is a sequence of bytes.                                 *)
(***************************************************************************)
EXTENDS Integers, Sequences, FiniteSets, TLC

\* ---------------------------------------------------------------- bounds
\* Longest marker table (rows of the CSV file) drawn by load_images, for each
\* of the three families of tables below.
MaxRows == 4
MaxRowsAnyId == 2
MaxRowsOneId == 3
\* Longest view list drawn by load_viewids.
MaxViews == 3

\* ------------------------------------------------------ program constants
\* bytearray(128)
DescLen == 128
\* data[...] = 255
DescMark == 255
\* struct.pack('<Q', ...): 8 bytes
CountBytes == 8

\* ------------------------------------------------------------ input sets
\* image file names of the project (basenames of the views' paths)
ViewNames == <<"a.jpg", "b.jpg", "c.jpg">>
\* the markerID column as text; the last two do not index a 128-byte array
\* from its start
IdStrings == {"5", "127", "-1", "128"}
InRangeIdStrings == {"5", "127"}
\* the markerX column of the k-th row: every row gets its own coordinate, so
\* that every observation is recognisable in the output (the code only
\* copies the coordinate columns)
CoordX == <<"11", "12", "13", "14", "15", "16">>
CoordY == "20"
MarkerSize == "7"
DescriptorTypes == {"cctag3", "cctag4"}

\* ------------------------------------------------------ str() and int()
\* int(row[3]): defined on the decimal texts, ValueError otherwise
IsIntText(s) == s \in {"-1", "5", "127", "128"}

IntOf(s) ==
  CASE s = "-1" -> 0 - 1
    [] s = "5" -> 5
    [] s = "127" -> 127
    [] s = "128" -> 128

\* str(n) of a small natural number
StrOf(n) ==
  CASE n = 0 -> "0" [] n = 1 -> "1" [] n = 2 -> "2" [] n = 3 -> "3"
    [] n = 4 -> "4" [] n = 5 -> "5" [] n = 6 -> "6" [] n = 7 -> "7"
    [] n = 8 -> "8" [] n = 9 -> "9"

\* the view identifier of each view record (a string in the SfMData file)
ViewIdOf(name) ==
  CASE name = "a.jpg" -> "1"
    [] name = "b.jpg" -> "2"
    [] name = "c.jpg" -> "3"

\* os.path.basename of a path held as <<directory, file name>>
Basename(path) == path[2]

\* ------------------------------------------------------- candidate inputs
Range(s) == {s[k] : k \in 1..Len(s)}

\* view lists of the SfMData file: records of distinct images
ViewLists ==
  UNION {{[k \in 1..n |->
            [path |-> <<"/images", ViewNames[p[k]]>>, viewId |-> ViewIdOf(ViewNames[p[k]])]]
          : p \in {q \in [1..n -> 1..Len(ViewNames)] :
                     \A i, j \in 1..n : i # j => q[i] # q[j]}}
         : n \in 0..(IF MaxViews < Len(ViewNames) THEN MaxViews ELSE Len(ViewNames))}

\* well-formed marker tables of at most `maxlen` rows
\* <<markerX, markerY, imageFileName, markerID, markerSize>>
TablesOver(names, ids, maxlen) ==
  UNION {{[k \in 1..n |-> <<CoordX[k], CoordY, c[k][1], c[k][2], MarkerSize>>]
          : c \in [1..n -> names \X ids]}
         : n \in 0..maxlen}

\* the marker tables drawn: two images with ids that fit the descriptor, the
\* same two images with any id, and one marker seen in up to three images
MarkerTables ==
  TablesOver({"a.jpg", "b.jpg"}, InRangeIdStrings, MaxRows)
  \cup TablesOver({"a.jpg", "b.jpg"}, IdStrings, MaxRowsAnyId)
  \cup TablesOver({"a.jpg", "b.jpg", "c.jpg"}, {"5"}, MaxRowsOneId)

\* marker tables csv.reader yields but the row expression rejects
MalformedTables ==
  { << <<"11", CoordY, "a.jpg", "x", MarkerSize>> >>,
    << <<"11", CoordY, "a.jpg", "5", MarkerSize>>, <<"12", CoordY>> >> }

\* ------------------------------------------------------------ load_images
\* line 113: (row[2], row[0], row[1], row[4], int(row[3])); the tuple is built
\* left to right, so a short row fails on row[2] before int() is tried
RowError(row) ==
  IF Len(row) < 5 THEN "IndexError"
  ELSE IF ~IsIntText(row[4]) THEN "ValueError"
  ELSE "none"

CsvError(rows) ==
  IF \E k \in 1..Len(rows) : RowError(rows[k]) # "none"
  THEN RowError(rows[CHOOSE k \in 1..Len(rows) :
                       /\ RowError(rows[k]) # "none"
                       /\ \A j \in 1..(k - 1) : RowError(rows[j]) = "none"])
  ELSE "none"

CsvItem(row) == <<row[3], row[1], row[2], row[5], IntOf(row[4])>>

CsvData(rows) == [k \in 1..Len(rows) |-> CsvItem(rows[k])]

\* a load that puts each row in front of its group
AppendItem_Prepend(images, item) ==
  [images EXCEPT ![item[1]] = <<Tail(item)>> \o @]

\* line 118: images[item[0]].append([*item[1:]])
AppendItem(images, item) ==
  [images EXCEPT ![item[1]] = Append(@, Tail(item))]

RECURSIVE GroupItems(_, _, _)
GroupItems(images, csv_data, k) ==
  IF k > Len(csv_data) THEN images
  ELSE GroupItems(AppendItem(images, csv_data[k]), csv_data, k + 1)

\* lines 115-118: one empty list per image name, then the rows in file order
LoadImagesResult(rows) ==
  LET csv_data == CsvData(rows)
  IN  GroupItems([f \in {csv_data[k][1] : k \in 1..Len(csv_data)} |-> <<>>], csv_data, 1)

\* ----------------------------------------------------------- load_viewids
\* lines 133-134: a dict keeps the position of a key's first insertion and
\* the value of its last
RECURSIVE BuildLookup(_, _, _)
BuildLookup(lookup, views, k) ==
  IF k > Len(views) THEN lookup
  ELSE LET key == Basename(views[k].path)
           val == views[k].viewId
       IN  IF \E j \in 1..Len(lookup) : lookup[j][1] = key
           THEN BuildLookup([j \in 1..Len(lookup) |->
                               IF lookup[j][1] = key THEN <<key, val>> ELSE lookup[j]],
                            views, k + 1)
           ELSE BuildLookup(Append(lookup, <<key, val>>), views, k + 1)

\* lookup.values()
LookupValues(lookup) == [k \in 1..Len(lookup) |-> lookup[k][2]]

\* line 222: itertools.combinations(values, 2), in its order
RECURSIVE Combinations2(_, _, _)
Combinations2(vals, i, j) ==
  IF i >= Len(vals) THEN <<>>
  ELSE IF j > Len(vals) THEN Combinations2(vals, i + 1, i + 2)
  ELSE <<(<<vals[i], vals[j]>>)>> \o Combinations2(vals, i, j + 1)

ImagePairs(lookup) == Combinations2(LookupValues(lookup), 1, 2)

\* ------------------------------------------------------- write_describers
\* line 144: one zero counter per distinct marker id of the whole table
InitFoundMarkers(images) ==
  [t \in {images[img][k][4] : <<img, k>> \in
            UNION {{<<f, n>> : n \in 1..Len(images[f])} : f \in DOMAIN images}} |-> 0]

\* line 145
InitFeatureLookup(lookup) == [v \in Range(LookupValues(lookup)) |-> <<>>]

\* struct.pack('<Q', n): n as `width` little-endian bytes
RECURSIVE LittleEndian(_, _)
LittleEndian(n, width) ==
  IF width = 0 THEN <<>> ELSE <<n % 256>> \o LittleEndian(n \div 256, width - 1)

PackCount(n) == LittleEndian(n, CountBytes)

\* a feature line with the size and the y coordinate exchanged
FeatLine_Swapped(marker) == <<marker[1], marker[3], marker[2], "0">>

\* line 162: " ".join((feat_x, feat_y, feat_size, feat_orientation + "\n"))
FeatLine(marker) == <<marker[1], marker[2], marker[3], "0">>

\* line 161, over the markers of one view
RECURSIVE CountMarkers(_, _, _)
CountMarkers(found, markers, k) ==
  IF k > Len(markers) THEN found
  ELSE CountMarkers([found EXCEPT ![markers[k][4]] = @ + 1], markers, k + 1)

\* an index that counts the feature lines from one
RecordIndex_FromOne(entry, tagid, feat_idx) ==
  [t \in DOMAIN entry \cup {tagid} |-> IF t = tagid THEN StrOf(feat_idx + 1) ELSE entry[t]]

\* line 163: feature_lookup[viewid][tagid] = str(feat_idx), feat_idx = k - 1
RecordIndex(entry, tagid, feat_idx) ==
  [t \in DOMAIN entry \cup {tagid} |-> IF t = tagid THEN StrOf(feat_idx) ELSE entry[t]]

RECURSIVE IndexMarkers(_, _, _)
IndexMarkers(entry, markers, k) ==
  IF k > Len(markers) THEN entry
  ELSE IndexMarkers(RecordIndex(entry, markers[k][4], k - 1), markers, k + 1)

\* line 168: data[i] = 255 on a bytearray of 128: an index below zero counts
\* from the end, and an index outside -128..127 is an IndexError
IndexInRange(i) == i >= 0 - DescLen /\ i < DescLen

ByteOffset(i) == IF i < 0 THEN i + DescLen ELSE i

DescData(i) == [b \in 1..DescLen |-> IF b = ByteOffset(i) + 1 THEN DescMark ELSE 0]

\* a dict held as a function with an empty domain
EmptyMap == <<>>

\* ------------------------------------------------------------ make_matches_txt
\* the orders in which a set can be iterated
Orderings(S) ==
  {o \in [1..Cardinality(S) -> S] : \A a, b \in 1..Cardinality(S) : a # b => o[a] # o[b]}

\* line 191: tags_detected_A & tags_detected_B
MatchOf(fl, viewid_A, viewid_B) == DOMAIN fl[viewid_A] \cap DOMAIN fl[viewid_B]

\* lines 193-199 for one pair, the shared tags iterated in the order `order`
MatchBlock(fl, dt, viewid_A, viewid_B, order) ==
  << <<viewid_A, viewid_B>>, <<"1">>, <<dt, StrOf(Len(order))>> >>
  \o [k \in 1..Len(order) |-> <<fl[viewid_A][order[k]], fl[viewid_B][order[k]]>>]

\* a loop without the test of line 192: a block for every pair
RECURSIVE MatchOutputs_NoTest(_, _, _, _)
MatchOutputs_NoTest(fl, dt, pairs, k) ==
  IF k > Len(pairs) THEN {<<>>}
  ELSE LET viewid_A == pairs[k][1]
           viewid_B == pairs[k][2]
           match == MatchOf(fl, viewid_A, viewid_B)
       IN  {MatchBlock(fl, dt, viewid_A, viewid_B, o) \o r :
              o \in Orderings(match), r \in MatchOutputs_NoTest(fl, dt, pairs, k + 1)}

\* lines 186-199: every out_temp the loop can build; the iteration order of
\* the intersection is whatever the set gives
RECURSIVE MatchOutputs(_, _, _, _)
MatchOutputs(fl, dt, pairs, k) ==
  IF k > Len(pairs) THEN {<<>>}
  ELSE LET viewid_A == pairs[k][1]
           viewid_B == pairs[k][2]
           match == MatchOf(fl, viewid_A, viewid_B)
           rest == MatchOutputs(fl, dt, pairs, k + 1)
       IN  IF match # {}
           THEN {MatchBlock(fl, dt, viewid_A, viewid_B, o) \o r :
                   o \in Orderings(match), r \in rest}
           ELSE rest

\* --------------------------------------------------------------- the files
FeatName(viewid, dt) == <<viewid, dt, "feat">>
DescName(viewid, dt) == <<viewid, dt, "desc">>
MatchesName == <<"0", "matches", "txt">>

\* open(name, "w"): the file exists and is empty
Create(fs, names) == [n \in DOMAIN fs \cup names |-> IF n \in names THEN <<>> ELSE fs[n]]

\* ------------------------------------------------------------------ state
VARIABLES
  hack,            \* chunk.node.hack.value
  dtype,           \* chunk.node.type.value
  matchesIsFile,   \* os.path.isfile(chunk.node.matches.value)
  inputIsFile,     \* os.path.isfile(chunk.node.input.value)
  pc,              \* where processChunk is
  rows,            \* the rows csv.reader gave load_images
  lookup,          \* load_viewids' dict, as its <<basename, viewId>> items in order
  image_pairs,
  images,
  found_markers,
  feature_lookup,
  i,               \* write_describers' loop index, from 1
  opened,          \* names of the files whose handle is open
  files,           \* the output folder: file name -> what was written to it
                   \* (it is on disk for certain once the handle is closed)
  report,          \* the <<marker, count>> lines of the markers report
  log,             \* logManager/logger events in order
  exc,             \* the exception raised inside the try block, "none" if none
  raised           \* what processChunk raised to its caller

vars == <<hack, dtype, matchesIsFile, inputIsFile, pc, rows, lookup, image_pairs,
          images, found_markers, feature_lookup, i, opened, files, report, log,
          exc, raised>>

params == <<hack, dtype, matchesIsFile, inputIsFile>>

Init ==
  /\ hack \in BOOLEAN
  /\ dtype \in DescriptorTypes
  /\ matchesIsFile \in BOOLEAN
  /\ inputIsFile \in BOOLEAN
  /\ pc = "start"
  /\ rows = <<>>
  /\ lookup = <<>>
  /\ image_pairs = <<>>
  /\ images = EmptyMap
  /\ found_markers = EmptyMap
  /\ feature_lookup = EmptyMap
  /\ i = 0
  /\ opened = {}
  /\ files = EmptyMap
  /\ report = {}
  /\ log = <<>>
  /\ exc = "none"
  /\ raised = "none"

\* raise inside the try block: control goes to the except clause
Raise(e) == /\ exc' = e
            /\ pc' = "except"

\* ---------------------------------------------------------- processChunk
\* lines 214-216
ProcessChunkStart ==
  /\ pc = "start"
  /\ log' = log \o << <<"start">>, <<"info", "Importing marker data">> >>
  /\ pc' = "check_matches"
  /\ UNCHANGED <<params, rows, lookup, image_pairs, images, found_markers,
                 feature_lookup, i, opened, files, report, exc, raised>>

\* lines 218-219
CheckMatchesFile ==
  /\ pc = "check_matches"
  /\ IF matchesIsFile
     THEN pc' = "load_viewids" /\ exc' = exc
     ELSE Raise("OSError")
  /\ UNCHANGED <<params, rows, lookup, image_pairs, images, found_markers,
                 feature_lookup, i, opened, files, report, log, raised>>

\* lines 221-222: load_viewids (124-138), then the pairs
LoadViewids ==
  /\ pc = "load_viewids"
  /\ IF inputIsFile
     THEN \E views \in ViewLists :
            LET views_lookup == BuildLookup(<<>>, views, 1)
            IN  /\ lookup' = views_lookup
                /\ image_pairs' = ImagePairs(views_lookup)
                /\ log' = Append(log, <<"info", "Found views", StrOf(Len(views_lookup))>>)
                /\ pc' = "load_images"
                /\ exc' = exc
     ELSE /\ Raise("Exception")
          /\ UNCHANGED <<lookup, image_pairs, log>>
  /\ UNCHANGED <<params, rows, images, found_markers, feature_lookup, i, opened,
                 files, report, raised>>

\* line 223: load_images (107-122)
LoadImages ==
  /\ pc = "load_images"
  /\ \E table \in MarkerTables \cup MalformedTables :
       /\ rows' = table
       /\ IF CsvError(table) = "none"
          THEN /\ images' = LoadImagesResult(table)
               /\ log' = Append(log, <<"info", "Loaded", StrOf(Len(table)),
                                       StrOf(Cardinality(DOMAIN LoadImagesResult(table)))>>)
               /\ pc' = "write_describers"
               /\ exc' = exc
          ELSE /\ Raise(CsvError(table))
               /\ UNCHANGED <<images, log>>
  /\ UNCHANGED <<params, lookup, image_pairs, found_markers, feature_lookup, i,
                 opened, files, report, raised>>

\* ------------------------------------------------------- write_describers
\* lines 141-145, and the loop's entry
WriteDescribersBegin ==
  /\ pc = "write_describers"
  /\ log' = Append(log, <<"info", "Writing descriptor files", dtype>>)
  /\ found_markers' = InitFoundMarkers(images)
  /\ feature_lookup' = InitFeatureLookup(lookup)
  /\ i' = 1
  /\ pc' = IF Len(lookup) >= 1 THEN "open_view" ELSE "report"
  /\ UNCHANGED <<params, rows, lookup, image_pairs, images, opened, files, report,
                 exc, raised>>

\* lines 148-151: both files of view i are opened for writing
OpenView ==
  /\ pc = "open_view"
  /\ LET viewid == lookup[i][2]
         names == {FeatName(viewid, dtype), DescName(viewid, dtype)}
     IN  /\ files' = Create(files, names)
         /\ opened' = opened \cup names
  /\ pc' = "write_view"
  /\ UNCHANGED <<params, rows, lookup, image_pairs, images, found_markers,
                 feature_lookup, i, report, log, exc, raised>>

\* lines 153-172: the body of the loop for view i
WriteView ==
  /\ pc = "write_view"
  /\ LET img == lookup[i][1]
         viewid == lookup[i][2]
         fname == FeatName(viewid, dtype)
         dname == DescName(viewid, dtype)
     IN  IF img \in DOMAIN images
         THEN LET markers == images[img]
                  marker == markers[Len(markers)]
                  header == PackCount(Len(markers))
                  lines == [k \in 1..Len(markers) |-> FeatLine(markers[k])]
              IN  /\ found_markers' = CountMarkers(found_markers, markers, 1)
                  /\ feature_lookup' =
                       [feature_lookup EXCEPT ![viewid] = IndexMarkers(@, markers, 1)]
                  /\ IF hack
                     THEN /\ files' = [files EXCEPT ![fname] = @ \o lines,
                                                    ![dname] = @ \o header]
                          /\ pc' = "close_view"
                          /\ exc' = exc
                     ELSE IF IndexInRange(marker[4])
                     THEN /\ files' = [files EXCEPT ![fname] = @ \o lines,
                                                    ![dname] = @ \o header
                                                                 \o DescData(marker[4])]
                          /\ pc' = "close_view"
                          /\ exc' = exc
                     ELSE \* line 168 raises: lines 174-175 are not reached and
                          \* both handles stay open
                          /\ files' = [files EXCEPT ![fname] = @ \o lines,
                                                    ![dname] = @ \o header]
                          /\ Raise("IndexError")
         ELSE /\ files' = [files EXCEPT ![dname] = @ \o PackCount(0)]
              /\ pc' = "close_view"
              /\ UNCHANGED <<found_markers, feature_lookup, exc>>
  /\ UNCHANGED <<params, rows, lookup, image_pairs, images, i, opened, report,
                 log, raised>>

\* lines 174-177: close both files, next view
CloseView ==
  /\ pc = "close_view"
  /\ LET viewid == lookup[i][2]
     IN  opened' = opened \ {FeatName(viewid, dtype), DescName(viewid, dtype)}
  /\ i' = i + 1
  /\ pc' = IF i + 1 <= Len(lookup) THEN "open_view" ELSE "report"
  /\ UNCHANGED <<params, rows, lookup, image_pairs, images, found_markers,
                 feature_lookup, files, report, log, exc, raised>>

\* a run that writes the match file whatever the option says
MatchesEnabled_Always == TRUE

\* line 225: if chunk.node.hack.value
MatchesEnabled == hack

\* lines 179-183, and the branch of line 225
MarkersReport ==
  /\ pc = "report"
  /\ log' = Append(log, <<"info", "Markers report:">>)
  /\ report' = {<<m, found_markers[m]>> : m \in DOMAIN found_markers}
  /\ pc' = IF MatchesEnabled THEN "make_matches" ELSE "task_done"
  /\ UNCHANGED <<params, rows, lookup, image_pairs, images, found_markers,
                 feature_lookup, i, opened, files, exc, raised>>

\* line 226: make_matches_txt (185-202); the file is opened, written and closed
MakeMatchesTxt ==
  /\ pc = "make_matches"
  /\ \E out_temp \in MatchOutputs(feature_lookup, dtype, image_pairs, 1) :
       files' = [n \in DOMAIN files \cup {MatchesName} |->
                   IF n = MatchesName THEN out_temp ELSE files[n]]
  /\ pc' = "task_done"
  /\ UNCHANGED <<params, rows, lookup, image_pairs, images, found_markers,
                 feature_lookup, i, opened, report, log, exc, raised>>

\* line 228
TaskDone ==
  /\ pc = "task_done"
  /\ log' = Append(log, <<"info", "Task done">>)
  /\ pc' = "finally"
  /\ UNCHANGED <<params, rows, lookup, image_pairs, images, found_markers,
                 feature_lookup, i, opened, files, report, exc, raised>>

\* lines 231-233: log the error; the bare raise re-raises it after finally
ExceptHandler ==
  /\ pc = "except"
  /\ log' = Append(log, <<"error", exc>>)
  /\ pc' = "finally"
  /\ UNCHANGED <<params, rows, lookup, image_pairs, images, found_markers,
                 feature_lookup, i, opened, files, report, exc, raised>>

\* an except clause that does not re-raise
Outcome_Swallowed(e) == "returned"

\* what leaves processChunk once the finally clause has run
Outcome(e) == IF e = "none" THEN "returned" ELSE "raised"

\* lines 234-235
FinallyEnd ==
  /\ pc = "finally"
  /\ log' = Append(log, <<"end">>)
  /\ pc' = Outcome(exc)
  /\ raised' = IF Outcome(exc) = "raised" THEN exc ELSE "none"
  /\ UNCHANGED <<params, rows, lookup, image_pairs, images, found_markers,
                 feature_lookup, i, opened, files, report, exc>>

Next ==
  \/ ProcessChunkStart
  \/ CheckMatchesFile
  \/ LoadViewids
  \/ LoadImages
  \/ WriteDescribersBegin
  \/ OpenView
  \/ WriteView
  \/ CloseView
  \/ MarkersReport
  \/ MakeMatchesTxt
  \/ TaskDone
  \/ ExceptHandler
  \/ FinallyEnd

Spec == Init /\ [][Next]_vars

\* ===================================================== reading the outputs
\* What the inputs say, read from the rows and the view list themselves.

\* the rows of the marker table that name image `img`, in file order
RowsOf(img) == SelectSeq(rows, LAMBDA r : r[3] = img)

\* the marker ids observed in image `img`
IdsOf(img) == {IntOf(RowsOf(img)[k][4]) : k \in 1..Len(RowsOf(img))}

\* the feature line an observation must produce: "x y size 0"
ExpectedLine(r) == <<r[1], r[2], r[5], "0">>

\* int() of a feature index or a match count
IsNatText(s) == s \in {"0", "1", "2", "3", "4", "5", "6", "7", "8", "9"}

NatOf(s) ==
  CASE s = "0" -> 0 [] s = "1" -> 1 [] s = "2" -> 2 [] s = "3" -> 3
    [] s = "4" -> 4 [] s = "5" -> 5 [] s = "6" -> 6 [] s = "7" -> 7
    [] s = "8" -> 8 [] s = "9" -> 9

\* the value of little-endian bytes
RECURSIVE DecodeLE(_)
DecodeLE(bytes) == IF bytes = <<>> THEN 0 ELSE Head(bytes) + 256 * DecodeLE(Tail(bytes))

\* a match file read back the way its consumer reads it: a header line, the
\* number of descriptor types, "<type> <count>", then <count> index lines
RECURSIVE ParseMatches(_)
ParseMatches(lines) ==
  IF lines = <<>> THEN [ok |-> TRUE, blocks |-> <<>>]
  ELSE IF \/ Len(lines) < 3
          \/ Len(lines[1]) # 2
          \/ lines[2] # <<"1">>
          \/ Len(lines[3]) # 2
       THEN [ok |-> FALSE, blocks |-> <<>>]
  ELSE IF ~IsNatText(lines[3][2]) THEN [ok |-> FALSE, blocks |-> <<>>]
  ELSE LET n == NatOf(lines[3][2])
       IN  IF Len(lines) < 3 + n THEN [ok |-> FALSE, blocks |-> <<>>]
           ELSE LET rest == ParseMatches(SubSeq(lines, 4 + n, Len(lines)))
                IN  [ok |-> rest.ok,
                     blocks |-> <<[header |-> lines[1], type |-> lines[3][1], count |-> n,
                                   index |-> SubSeq(lines, 4, 3 + n)]>> \o rest.blocks]

Logged(text) == \E k \in 1..Len(log) : Len(log[k]) >= 2 /\ log[k][2] = text

\* load_images returned
Loaded == Logged("Loaded")

\* the run completed: processChunk returned to its caller
Completed == pc = "returned"

\* the loop of write_describers is through with view k's body (lines 153-172)
Written(k) ==
  /\ k \in 1..Len(lookup)
  /\ \/ k < i
     \/ k = i /\ pc \notin {"open_view", "write_view"}

\* view k's processing ended: the loop moved on or finished, or the run
\* aborted inside view k
Ended(k) ==
  /\ k \in 1..Len(lookup)
  /\ \/ k < i
     \/ k = i /\ pc \in {"except", "finally", "raised"}

\* -------------------------------------------------------------------- C6
RECURSIVE SumLens(_, _)
SumLens(imgs, keys) ==
  IF keys = {} THEN 0
  ELSE LET f == CHOOSE g \in keys : TRUE
       IN  Len(imgs[f]) + SumLens(imgs, keys \ {f})

\* C6: load_images groups the R rows of the marker table by image file name:
\* the group sizes add up to R, every row is in the group of its own image
\* and in no other, and each group keeps the file's row order.
C6_LoadImagesGroups ==
  Loaded =>
    /\ DOMAIN images = {rows[k][3] : k \in 1..Len(rows)}
    /\ SumLens(images, DOMAIN images) = Len(rows)
    /\ \A f \in DOMAIN images :
         /\ Len(images[f]) = Len(RowsOf(f))
         /\ \A k \in 1..Len(images[f]) :
              LET r == RowsOf(f)[k]
              IN  images[f][k] = <<r[1], r[2], r[5], IntOf(r[4])>>

C6_Witness ==
  /\ Loaded
  /\ Len(rows) = 3
  /\ rows[1][3] = "a.jpg" /\ rows[2][3] = "b.jpg" /\ rows[3][3] = "a.jpg"
  /\ Len(images["a.jpg"]) = 2

\* -------------------------------------------------------------------- C4
\* the files of the output folder named by view id `viewid`
FilesOfView(viewid) == {n \in DOMAIN files : n[1] = viewid}

\* C4: after a run that completes, every catalogued view, with or without
\* markers, has exactly one feature file and one descriptor file named by its
\* view id, and the feature file holds one line "x y size 0" per observation
\* of the view's image, in the marker table's row order (no line when none).
C4_FilePairPerView ==
  Completed =>
    \A k \in 1..Len(lookup) :
      LET img == lookup[k][1]
          viewid == lookup[k][2]
          feat == FeatName(viewid, dtype)
      IN  /\ FilesOfView(viewid) = {feat, DescName(viewid, dtype)}
          /\ Len(files[feat]) = Len(RowsOf(img))
          /\ \A j \in 1..Len(files[feat]) : files[feat][j] = ExpectedLine(RowsOf(img)[j])

C4_Witness ==
  /\ Completed
  /\ Len(lookup) = 3
  /\ \E k \in 1..Len(lookup) : Len(RowsOf(lookup[k][1])) = 0
                                /\ files[FeatName(lookup[k][2], dtype)] = <<>>
  /\ \E k \in 1..Len(lookup) : Len(files[FeatName(lookup[k][2], dtype)]) = 2

\* -------------------------------------------------------------------- C5
\* C5: FeatureIndex[v][m] is the zero-based position, in v's feature file, of
\* a feature line of marker m, for every marker m written in v (and for no
\* other m); and every index line "i j" of a match block for (A, B) names a row
\* i of A's feature file and a row j of B's that observe the same marker id.
C5_FeatureIndexBridges ==
  /\ \A k \in 1..Len(lookup) :
       Written(k) =>
         LET img == lookup[k][1]
             viewid == lookup[k][2]
             feat == files[FeatName(viewid, dtype)]
         IN  /\ DOMAIN feature_lookup[viewid] = IdsOf(img)
             /\ \A m \in IdsOf(img) :
                  /\ IsNatText(feature_lookup[viewid][m])
                  /\ LET pos == NatOf(feature_lookup[viewid][m]) + 1
                     IN  /\ pos \in 1..Len(feat)
                         /\ IntOf(RowsOf(img)[pos][4]) = m
                         /\ feat[pos] = ExpectedLine(RowsOf(img)[pos])
  /\ MatchesName \in DOMAIN files =>
       LET parsed == ParseMatches(files[MatchesName])
       IN  /\ parsed.ok
           /\ \A b \in 1..Len(parsed.blocks) :
                LET blk == parsed.blocks[b]
                IN  \E ka, kb \in 1..Len(lookup) :
                      /\ blk.header = <<lookup[ka][2], lookup[kb][2]>>
                      /\ \A n \in 1..Len(blk.index) :
                           /\ Len(blk.index[n]) = 2
                           /\ IsNatText(blk.index[n][1]) /\ IsNatText(blk.index[n][2])
                           /\ LET ra == NatOf(blk.index[n][1]) + 1
                                  rb == NatOf(blk.index[n][2]) + 1
                                  obsA == RowsOf(lookup[ka][1])
                                  obsB == RowsOf(lookup[kb][1])
                              IN  /\ ra \in 1..Len(files[FeatName(lookup[ka][2], dtype)])
                                  /\ rb \in 1..Len(files[FeatName(lookup[kb][2], dtype)])
                                  /\ ra \in 1..Len(obsA) /\ rb \in 1..Len(obsB)
                                  /\ obsA[ra][4] = obsB[rb][4]

\* two views sharing a marker that is not in row 0 of either, bypass on
C5_Witness ==
  /\ Completed
  /\ MatchesName \in DOMAIN files
  /\ \E n \in 1..Len(files[MatchesName]) : files[MatchesName][n] = <<"1", "0">>
  /\ \E k \in 1..Len(lookup) : Len(RowsOf(lookup[k][1])) = 2
                                /\ Cardinality(IdsOf(lookup[k][1])) = 2

\* -------------------------------------------------------------------- C1
\* the marker ids written in both view ka and view kb of the catalog
SharedIds(ka, kb) == IdsOf(lookup[ka][1]) \cap IdsOf(lookup[kb][1])

RECURSIVE SumBlockLines(_)
SumBlockLines(pairs) ==
  IF pairs = {} THEN 0
  ELSE LET p == CHOOSE q \in pairs : TRUE
       IN  (IF SharedIds(p[1], p[2]) = {} THEN 0
            ELSE 3 + Cardinality(SharedIds(p[1], p[2])))
           + SumBlockLines(pairs \ {p})

\* C1: with bypass enabled and a completed run, the match file holds a block
\* headed "<viewId_A> <viewId_B>" for a pair (A, B) of the catalog's
\* 2-combinations exactly when A and B share a written marker id; the block's
\* second line is "1", its third "<descriptorType> <matchCount>" with
\* matchCount the number of distinct shared ids, followed by exactly
\* matchCount index lines; a pair sharing nothing contributes no line.
C1_MatchBlocks ==
  (Completed /\ hack) =>
    /\ MatchesName \in DOMAIN files
    /\ LET parsed == ParseMatches(files[MatchesName])
           combos == {c \in (1..Len(lookup)) \X (1..Len(lookup)) : c[1] < c[2]}
           BlocksOf(c) == {b \in 1..Len(parsed.blocks) :
                             parsed.blocks[b].header = <<lookup[c[1]][2], lookup[c[2]][2]>>}
       IN  /\ parsed.ok
           /\ \A c \in combos :
                /\ (BlocksOf(c) # {}) <=> (SharedIds(c[1], c[2]) # {})
                /\ Cardinality(BlocksOf(c)) <= 1
                /\ \A b \in BlocksOf(c) :
                     /\ parsed.blocks[b].type = dtype
                     /\ parsed.blocks[b].count = Cardinality(SharedIds(c[1], c[2]))
                     /\ Len(parsed.blocks[b].index) = parsed.blocks[b].count
           /\ \A b \in 1..Len(parsed.blocks) : \E c \in combos : b \in BlocksOf(c)
           /\ Len(files[MatchesName]) = SumBlockLines(combos)

\* three views: one pair shares two markers, the pairs with the third view
\* share nothing
C1_Witness ==
  /\ Completed /\ hack
  /\ Len(lookup) = 3
  /\ \E ka, kb \in 1..Len(lookup) : ka < kb /\ Cardinality(SharedIds(ka, kb)) = 2
  /\ \E ka, kb \in 1..Len(lookup) : ka < kb /\ SharedIds(ka, kb) = {}
  /\ Len(files[MatchesName]) = 5
  /\ files[MatchesName][3] = <<dtype, "2">>

\* -------------------------------------------------------------------- C8
\* what a complete FeatureIndex holds: for every catalogued view, an index
\* for exactly the marker ids of its image
FeatureIndexComplete ==
  /\ DOMAIN feature_lookup = {lookup[k][2] : k \in 1..Len(lookup)}
  /\ \A k \in 1..Len(lookup) : DOMAIN feature_lookup[lookup[k][2]] = IdsOf(lookup[k][1])

\* C8: 0.matches.txt exists only if bypass is enabled, every catalogued view's
\* feature and descriptor file has been written and closed, the FeatureIndex
\* is complete and write_describers did not abort.
C8_MatchesAfterAllViews ==
  MatchesName \in DOMAIN files =>
    /\ hack
    /\ exc = "none"
    /\ i = Len(lookup) + 1
    /\ opened = {}
    /\ \A k \in 1..Len(lookup) :
         /\ Written(k)
         /\ FeatName(lookup[k][2], dtype) \in DOMAIN files
         /\ DescName(lookup[k][2], dtype) \in DOMAIN files
         /\ Len(files[DescName(lookup[k][2], dtype)]) >= CountBytes
    /\ FeatureIndexComplete
    /\ pc \in {"task_done", "finally", "returned"}

C8_Witness ==
  /\ MatchesName \in DOMAIN files
  /\ Len(lookup) = 3
  /\ Len(files[MatchesName]) > 0

\* -------------------------------------------------------------------- C7
EndCount == Cardinality({k \in 1..Len(log) : log[k] = <<"end">>})

\* C7: on every run the cleanup (logManager.end) runs exactly once, as the
\* run's last action; an error raised by a stage is logged at error severity
\* just before the cleanup and is what processChunk raises after it; after
\* the error no later stage runs and "Task done" is not logged.
C7_CleanupThenReraise ==
  /\ EndCount = (IF pc \in {"returned", "raised"} THEN 1 ELSE 0)
  /\ pc \in {"returned", "raised"} => log[Len(log)] = <<"end">>
  /\ pc = "raised" =>
       /\ exc # "none"
       /\ raised = exc
       /\ Len(log) >= 2 /\ log[Len(log) - 1] = <<"error", exc>>
  /\ pc = "returned" =>
       /\ exc = "none"
       /\ raised = "none"
       /\ Len(log) >= 2 /\ log[Len(log) - 1] = <<"info", "Task done">>
  /\ pc \notin {"returned", "raised"} => raised = "none"
  /\ \A k \in 1..Len(log) :
       log[k][1] = "error" =>
         /\ log[k] = <<"error", exc>>
         /\ exc # "none"
         /\ \A j \in (k + 1)..Len(log) : log[j] = <<"end">>
  /\ exc # "none" =>
       /\ pc \in {"except", "finally", "raised"}
       /\ ~Logged("Task done")
       /\ ~Logged("Markers report:")
       /\ report = {}
       /\ MatchesName \notin DOMAIN files
       /\ ~Logged("Found views") => ~Loaded /\ rows = <<>> /\ lookup = <<>>
       /\ ~Loaded => files = EmptyMap /\ images = EmptyMap /\ i = 0

\* the run failed in the second view, after the first view's files were written
C7_Witness ==
  /\ pc = "raised"
  /\ raised = "IndexError"
  /\ Loaded
  /\ i = 2
  /\ log[Len(log)] = <<"end">>

\* ============================================ claims the code does not meet
\* -------------------------------------------------------------------- C2
\* the descriptor file of view k, as the code writes it: the count, then for
\* a view with markers and the limit active 128 bytes whose only 255 is at
\* `offset`
DescriptorIs(k, offset) ==
  LET img == lookup[k][1]
      d == files[DescName(lookup[k][2], dtype)]
      n == Len(RowsOf(img))
  IN  /\ Len(d) >= CountBytes
      /\ DecodeLE(SubSeq(d, 1, CountBytes)) = n
      /\ IF n = 0 \/ hack
         THEN Len(d) = CountBytes
         ELSE /\ Len(d) = CountBytes + DescLen
              /\ offset \in 0..(DescLen - 1)
              /\ \A b \in 0..(DescLen - 1) :
                   d[CountBytes + b + 1] = (IF b = offset THEN DescMark ELSE 0)

\* the marker id of the last observation of view k's image (0 when none)
LastId(k) ==
  LET obs == RowsOf(lookup[k][1])
  IN  IF Len(obs) = 0 THEN 0 ELSE IntOf(obs[Len(obs)][4])

\* C2: the descriptor file of every processed view is the 8-byte little-endian
\* count k of the view's observations, alone when k = 0 or bypass is enabled,
\* and otherwise followed by 128 bytes all 0 but one 255 at the offset equal
\* to the marker id of the view's last marker.
C2_DescriptorLayout ==
  \A k \in 1..Len(lookup) : k < i => DescriptorIs(k, LastId(k))

\* what the code writes: the 255 is at the last marker's id counted from the
\* end of the array when the id is negative
DescriptorLayout_WrapAround ==
  \A k \in 1..Len(lookup) :
    k < i => DescriptorIs(k, IF LastId(k) < 0 THEN LastId(k) + DescLen ELSE LastId(k))

\* -------------------------------------------------------------------- C3
\* the marker ids of the observations that belong to catalogued views
CataloguedIds == UNION {IdsOf(lookup[k][1]) : k \in 1..Len(lookup)}

\* C3: with bypass disabled, a marker id outside 0..127 in any observation of
\* a catalogued view aborts the run with an IndexError: it never completes and
\* never logs "Task done"; with every id in 0..127 there is no IndexError; with
\* bypass enabled there is never one.
C3_TagLimit ==
  Loaded =>
    /\ (~hack /\ \E m \in CataloguedIds : m \notin 0..(DescLen - 1)) =>
         /\ ~Completed
         /\ ~Logged("Task done")
         /\ pc = "raised" => raised = "IndexError"
    /\ (~hack /\ \A m \in CataloguedIds : m \in 0..(DescLen - 1)) => exc # "IndexError"
    /\ hack => exc # "IndexError"

\* what the code does: only the last marker of each view indexes the array,
\* and ids -128..-1 index it from the end
TagLimit_LastMarkerOnly ==
  Loaded =>
    /\ (~hack /\ \E k \in 1..Len(lookup) :
                   RowsOf(lookup[k][1]) # <<>> /\ ~IndexInRange(LastId(k))) =>
         /\ ~Completed
         /\ ~Logged("Task done")
         /\ pc = "raised" => raised = "IndexError"
    /\ (~hack /\ \A k \in 1..Len(lookup) : IndexInRange(LastId(k))) => exc = "none"
    /\ hack => exc = "none"

\* -------------------------------------------------------------------- C9
AllIds == {IntOf(rows[k][4]) : k \in 1..Len(rows)}

\* C9: the markers report lists exactly the distinct marker ids, each with the
\* number of catalogued views in which it was written, a view counting once
\* however many observations of the id it holds.
C9_ReportCountsViews ==
  Logged("Markers report:") =>
    /\ {r[1] : r \in report} = AllIds
    /\ \A r \in report :
         r[2] = Cardinality({k \in 1..Len(lookup) : r[1] \in IdsOf(lookup[k][1])})

\* what the code reports: the number of observations written
RECURSIVE SumObs(_, _)
SumObs(m, ks) ==
  IF ks = {} THEN 0
  ELSE LET k == CHOOSE j \in ks : TRUE
       IN  Len(SelectSeq(RowsOf(lookup[k][1]), LAMBDA r : IntOf(r[4]) = m))
           + SumObs(m, ks \ {k})

Report_CountsObservations ==
  Logged("Markers report:") =>
    /\ {r[1] : r \in report} = AllIds
    /\ \A r \in report : r[2] = SumObs(r[1], 1..Len(lookup))

\* ------------------------------------------------------------------- C10
ViewFiles(k) == {FeatName(lookup[k][2], dtype), DescName(lookup[k][2], dtype)}

\* C10: at most one view's files are open at a time, a view's files are closed
\* before the next view's are opened, and once a view's processing has ended
\* (next view, run complete, or run aborted in that view) neither of its files
\* is open.
C10_HandlesScopedPerView ==
  /\ Cardinality({n[1] : n \in opened}) <= 1
  /\ pc = "open_view" => opened = {}
  /\ \A k \in 1..Len(lookup) : Ended(k) => ViewFiles(k) \cap opened = {}

\* what the code guarantees: the same, but for the view the run aborted in
Handles_ExceptOnAbort ==
  /\ Cardinality({n[1] : n \in opened}) <= 1
  /\ pc = "open_view" => opened = {}
  /\ \A k \in 1..Len(lookup) : k < i => ViewFiles(k) \cap opened = {}
  /\ Completed => opened = {}

====
